---- MODULE Spec2Model ----
(***************************************************************************)
(* Model of the cupy-release-tools slice:                                  *)
(*   builder/setup_cuda_opt_lib.py  -- the tree merger and the vendor      *)
(*                                     library installer                   *)
(*   dist.py                        -- the build / verify pipelines        *)
(*                                                                         *)
(* A file system tree is a function from the paths that exist below a root *)
(* (sequences of names) to an entry: DirEntry for a directory, a positive  *)
(* number for the content of a regular file.  The root itself always       *)
(* exists and is a directory.                                              *)
(***************************************************************************)
EXTENDS Integers, Sequences, FiniteSets, TLC

VARIABLES
    src,        \* the source tree handed to the merger / installer
    dst,        \* the destination tree, as it is now
    libname,    \* the library name handed to _install_library
    install_map,\* the name map handed to _install_library
    log,        \* one record per finished call: [pre, post, status]
    pipeline,   \* the Controller method that runs
    target,     \* --target
    cuda_version, \* --cuda ("None" when not given)
    nccl_assets,\* --nccl-assets ("None" when not given)
    cfg,        \* what the method resolved before creating the working directory
    host,       \* what _check_windows_environment found on the host
    pc,         \* the stage the method is about to run
    exc,        \* the exception in flight inside the try block ("none")
    outcome,    \* "running", "returned", or the exception the caller gets
    workdirs,   \* one record per mkdtemp: [state, rmtree]
    staged,     \* what the current working directory holds
    metadata,   \* the object written to _wheel.json ("absent" fields when not)
    images,     \* the docker images built
    cmds,       \* the external commands run, in order
    output,     \* the files in the output location
    hostfs,     \* what was installed into the host's CUDA_PATH
    sysidx,     \* verify_linux: the index of the system under verification
    stages,     \* the stages entered, in order
    script,     \* the function or script under study apart from the above
    input,      \* what it was called with
    result      \* what it did: <<>> until it has run

fsvars == <<src, dst, libname, install_map, log>>

plvars == <<pipeline, target, cuda_version, nccl_assets, cfg, host, pc, exc,
            outcome, workdirs, staged, metadata, images, cmds, output, hostfs,
            sysidx, stages>>

scriptvars == <<script, input, result>>

vars == <<src, dst, libname, install_map, log,
          pipeline, target, cuda_version, nccl_assets, cfg, host, pc, exc,
          outcome, workdirs, staged, metadata, images, cmds, output, hostfs,
          sysidx, stages, script, input, result>>

NoCfg == [kind |-> "None", nccl_config |-> "None", cudnn_version |-> "None",
          asset_name |-> "None", asset_dest_name |-> "None", systems |-> <<>>]
NoHost == [platform |-> "unchecked", python_matches |-> FALSE, cudart |-> "unchecked"]
NoMetadata == [cuda |-> "absent", cudnn |-> "absent"]

(* Neither get_cudnn_record alone nor the verifier's header setup runs. *)
IdleScript == script = "none" /\ input = <<>> /\ result = <<>>

(* No pipeline runs: the merger and the installer are scripts of their own. *)
IdlePipeline ==
    /\ pipeline = "none" /\ target = "None" /\ cuda_version = "None"
    /\ nccl_assets = "None" /\ cfg = NoCfg /\ host = NoHost /\ pc = "done"
    /\ exc = "none" /\ outcome = "returned" /\ workdirs = <<>> /\ staged = {}
    /\ metadata = NoMetadata /\ images = {} /\ cmds = <<>> /\ output = {}
    /\ hostfs = {} /\ sysidx = 0 /\ stages = <<>>

(* No merger or installer call is under way in a pipeline run of dist.py. *)
IdleInstaller ==
    /\ src = <<>> /\ dst = <<>> /\ libname = "none" /\ install_map = <<>>
    /\ log = <<>>

----------------------------------------------------------------------------
(* Bounds of the merger model *)
MaxDepth == 2
MaxContent == 2
MaxEntries == 2
MaxMerges == 2

(* Entry of a directory; file contents are 1..MaxContent *)
DirEntry == 0

Names == {"a", "b"}
Contents == 1..MaxContent
Entries == {DirEntry} \cup Contents

Parent(p) == SubSeq(p, 1, Len(p) - 1)
Last(p) == p[Len(p)]

Exists(t, p) == p = <<>> \/ p \in DOMAIN t
IsDir(t, p) == p = <<>> \/ (p \in DOMAIN t /\ t[p] = DirEntry)
IsFile(t, p) == p \in DOMAIN t /\ t[p] # DirEntry

Children(t, p) == {q \in DOMAIN t : Len(q) = Len(p) + 1 /\ Parent(q) = p}
FileChildren(t, p) == {q \in Children(t, p) : t[q] # DirEntry}
DirChildren(t, p) == {q \in Children(t, p) : t[q] = DirEntry}

(* Every entry below the root hangs under a directory. *)
WellFormed(t) ==
    \A p \in DOMAIN t : Len(p) > 1 => IsDir(t, Parent(p)) /\ Parent(p) \in DOMAIN t

PathsOver(names) == UNION {[1..d -> names] : d \in 1..MaxDepth}

(* The well-formed trees over the given names with at most n entries. *)
TreesUpTo(names, n) ==
    UNION {{t \in [P -> Entries] : WellFormed(t)} :
               P \in {Q \in SUBSET PathsOver(names) : Cardinality(Q) <= n}}

Put(t, p, e) == [q \in DOMAIN t \cup {p} |-> IF q = p THEN e ELSE t[q]]

Ok(t) == [fs |-> t, status |-> "ok"]
Fail(t, err) == [fs |-> t, status |-> err]

----------------------------------------------------------------------------
(* pathlib.Path.mkdir(): no parents, no exist_ok *)
Mkdir(st, p) ==
    IF st.status # "ok" THEN st
    ELSE IF Exists(st.fs, p) THEN Fail(st.fs, "OSError")
    ELSE IF ~IsDir(st.fs, Parent(p)) THEN Fail(st.fs, "OSError")
    ELSE Ok(Put(st.fs, p, DirEntry))

(* A copy that refuses to replace what is already at the destination. *)
copy2Exclusive(S, st, srcfile, destfile) ==
    IF st.status # "ok" THEN st
    ELSE IF Exists(st.fs, destfile) THEN Fail(st.fs, "OSError")
    ELSE IF ~IsDir(st.fs, Parent(destfile)) THEN Fail(st.fs, "OSError")
    ELSE Ok(Put(st.fs, destfile, S[srcfile]))

(* shutil.copy2(srcfile, destfile): a destination that is a directory      *)
(* receives the file under the source's base name; the file is then        *)
(* opened for writing, which fails on a directory or under a missing or    *)
(* non-directory parent.                                                   *)
copy2(S, st, srcfile, destfile) ==
    IF st.status # "ok" THEN st
    ELSE LET D == st.fs
             written == IF IsDir(D, destfile)
                       THEN destfile \o <<Last(srcfile)>>
                       ELSE destfile
         IN  IF IsDir(D, written) THEN Fail(D, "OSError")
             ELSE IF ~IsDir(D, Parent(written)) THEN Fail(D, "OSError")
             ELSE Ok(Put(D, written, S[srcfile]))

(* The inner loop of merge_directory: the files of one source directory,   *)
(* in any listing order.  The result is the set of possible outcomes.      *)
RECURSIVE CopyFiles(_, _, _, _)
CopyFiles(S, sts, destpath, files) ==
    IF files = {} THEN sts
    ELSE UNION {CopyFiles(S,
                          {copy2(S, st, f, destpath \o <<Last(f)>>) : st \in sts},
                          destpath, files \ {f}) : f \in files}

(* One iteration of the os.walk loop of merge_directory for the source     *)
(* directory srcpath, followed by the walk's descent into its              *)
(* subdirectories (top-down, any listing order).                           *)
RECURSIVE Walk(_, _, _, _)
RECURSIVE WalkDirs(_, _, _, _)
Walk(S, sts, srcpath, destpath) ==
    LET made == {IF st.status = "ok" /\ ~Exists(st.fs, destpath)
                 THEN Mkdir(st, destpath) ELSE st : st \in sts}
        copied == CopyFiles(S, made, destpath, FileChildren(S, srcpath))
    IN  WalkDirs(S, copied, destpath, DirChildren(S, srcpath))

WalkDirs(S, sts, destpath, dirs) ==
    IF dirs = {} THEN sts
    ELSE UNION {WalkDirs(S, Walk(S, sts, d, destpath \o <<Last(d)>>),
                         destpath, dirs \ {d}) : d \in dirs}

(* merge_directory(src_dir, dst_dir) on the trees S and D: the set of      *)
(* outcomes [fs, status] over all listing orders.                          *)
merge_directory(S, src_dir, D, dst_dir) ==
    IF ~IsDir(S, src_dir) THEN {Ok(D)}
    ELSE Walk(S, {Ok(D)}, src_dir, dst_dir)

----------------------------------------------------------------------------
(* The merger alone: any source tree merged into any destination tree,     *)
(* MaxMerges times.                                                        *)
InitMerge ==
    /\ src \in TreesUpTo(Names, MaxEntries)
    /\ dst \in TreesUpTo(Names, MaxEntries)
    /\ libname = "none"
    /\ install_map = <<>>
    /\ log = <<>>
    /\ IdlePipeline
    /\ IdleScript

Merge ==
    /\ Len(log) < MaxMerges
    /\ \E out \in merge_directory(src, <<>>, dst, <<>>) :
          /\ dst' = out.fs
          /\ log' = Append(log, [pre |-> dst, post |-> out.fs, status |-> out.status])
    /\ UNCHANGED <<src, libname, install_map>>
    /\ UNCHANGED <<plvars, scriptvars>>

NextMerge == Merge

SpecMerge == InitMerge /\ [][NextMerge]_vars

----------------------------------------------------------------------------
(* Properties of merge_directory, over the calls recorded in log under     *)
(* SpecMerge.                                                              *)

(* The files of the source tree. *)
SourceFiles == {p \in DOMAIN src : src[p] # DirEntry}

\* C8: merge is idempotent: when merge(source, dest) succeeds, a second
\* merge(source, dest) succeeds too and leaves the destination's paths and
\* file contents as they were after the first.
C8_MergeIdempotent ==
    \A i \in 1..(Len(log) - 1) :
        log[i].status = "ok" =>
            log[i + 1].status = "ok" /\ log[i + 1].post = log[i].post

(* Two merges done, the first one overwrote a destination file with other  *)
(* content, and the second one left the result as it was.                  *)
C8_Witness ==
    /\ Len(log) = 2
    /\ log[1].status = "ok"
    /\ \E p \in SourceFiles :
          IsFile(log[1].pre, p) /\ log[1].pre[p] # src[p] /\ log[1].post[p] = src[p]
    /\ log[2].status = "ok"
    /\ log[2].post = log[1].post

(* Every path of the destination is still there after the call, failed or  *)
(* not.                                                                    *)
MergeKeepsPaths ==
    \A i \in 1..Len(log) : \A p \in DOMAIN log[i].pre : p \in DOMAIN log[i].post

\* C9: merge never deletes anything at the destination: every file and
\* directory that exists under destDir before the merge still exists
\* afterwards, and every destination file whose relative path is not the
\* relative path of a source file keeps its content.
C9_MergeKeepsDestination ==
    \A i \in 1..Len(log) :
        /\ \A p \in DOMAIN log[i].pre : p \in DOMAIN log[i].post
        /\ \A p \in DOMAIN log[i].pre :
              (IsFile(log[i].pre, p) /\ p \notin SourceFiles) =>
                  log[i].post[p] = log[i].pre[p]

\* C10: after a successful merge, every file at relative path p under
\* sourceDir has a file at the same path p under destDir with the source
\* file's content, also when another file was at p before.
C10_MergeCopiesEveryFile ==
    \A i \in 1..Len(log) :
        log[i].status = "ok" =>
            \A p \in SourceFiles :
                IsFile(log[i].post, p) /\ log[i].post[p] = src[p]

----------------------------------------------------------------------------
(* A _child without its assertion: some child, whatever their number. *)
_childAny(T, path) ==
    IF ~IsDir(T, path) \/ Children(T, path) = {} THEN [status |-> "OSError", path |-> path]
    ELSE [status |-> "ok", path |-> CHOOSE q \in Children(T, path) : TRUE]

(* _child(path): the only child of a directory; iterdir() raises on what  *)
(* is no directory, the assertion on any number of children but one.       *)
_child(T, path) ==
    IF ~IsDir(T, path) THEN [status |-> "OSError", path |-> path]
    ELSE IF Cardinality(Children(T, path)) # 1
         THEN [status |-> "AssertionError", path |-> path]
    ELSE [status |-> "ok", path |-> CHOOSE q \in Children(T, path) : TRUE]

(* install_map.get(child.name, child.name) *)
dest_name(imap, name) == IF name \in DOMAIN imap THEN imap[name] ELSE name

(* An installer that never skips a library. *)
LibraryAlwaysAvailable(T, libdir) == TRUE

(* `if not src_dir.exists()`: the library is skipped when its directory is absent *)
LibraryAvailable(T, libdir) == Exists(T, libdir)

(* The body of the loop of _install_library for one payload entry.  The    *)
(* file branch names `dst_name`, which is bound nowhere: NameError.        *)
InstallChild(T, st, imap, child) ==
    IF st.status # "ok" THEN {st}
    ELSE IF IsDir(T, child)
         THEN merge_directory(T, child, st.fs, <<dest_name(imap, Last(child))>>)
         ELSE {Fail(st.fs, "NameError")}

(* The loop over the payload directory, in any listing order. *)
RECURSIVE InstallChildren(_, _, _, _)
InstallChildren(T, sts, imap, children) ==
    IF children = {} THEN sts
    ELSE UNION {InstallChildren(T,
                    UNION {InstallChild(T, st, imap, c) : st \in sts},
                    imap, children \ {c}) : c \in children}

(* _install_library(name, src_dir, dst_dir, install_map): the set of       *)
(* outcomes [fs, status] on the vendor tree T and the destination tree D.  *)
_install_library(name, T, D, imap) ==
    LET version == _child(T, <<>>)
    IN  IF version.status # "ok" THEN {Fail(D, version.status)}
        ELSE LET libdir == version.path \o <<name>>
             IN  IF ~LibraryAvailable(T, libdir) THEN {Ok(D)}
                 ELSE LET payload == _child(T, libdir)
                      IN  IF payload.status # "ok" THEN {Fail(D, payload.status)}
                          ELSE IF ~IsDir(T, payload.path) THEN {Fail(D, "OSError")}
                          ELSE InstallChildren(T, {Ok(D)}, imap,
                                               Children(T, payload.path))

----------------------------------------------------------------------------
(* The installer alone: one call of _install_library on a vendor tree.     *)
MaxCandidates == 2
MaxPayloadEntries == 2
MaxDestEntries == 1

CandidateNames == <<"v1", "v2", "v3">>
Candidates(n) == {CandidateNames[i] : i \in 1..n}
PayloadNames == {"lib", "LICENSE"}
DestNames == {"lib", "lib64"}

(* The name maps main() passes on Linux for nccl and for cudnn. *)
LinuxNcclMap == [n \in {"lib", "include"} |-> IF n = "lib" THEN "lib64" ELSE "include"]
LinuxCudnnMap == [n \in {"lib64", "include"} |-> n]

LinuxCalls == {<<"nccl", LinuxNcclMap>>, <<"cudnn", LinuxCudnnMap>>}

(* $src_dir/$CUDA_VERSION/$name/$LIB_VERSION/<payload> *)
VendorTree(tops, libs, vers, payload) ==
    LET stems == {<<t, l, v>> : t \in tops, l \in libs, v \in vers}
        dirs == {<<t>> : t \in tops} \cup {<<t, l>> : t \in tops, l \in libs} \cup stems
        files == {s \o p : s \in stems, p \in DOMAIN payload}
    IN  [q \in dirs \cup files |->
            IF q \in dirs THEN DirEntry ELSE payload[SubSeq(q, 4, Len(q))]]

InitInstall ==
    /\ \E ntops \in 0..MaxCandidates, nvers \in 0..MaxCandidates,
          libs \in {{"cudnn"}, {"nccl", "cudnn"}},
          payload \in TreesUpTo(PayloadNames, MaxPayloadEntries) :
            src = VendorTree(Candidates(ntops), libs, Candidates(nvers), payload)
    /\ dst \in TreesUpTo(DestNames, MaxDestEntries)
    /\ \E call \in LinuxCalls : libname = call[1] /\ install_map = call[2]
    /\ log = <<>>
    /\ IdlePipeline
    /\ IdleScript

Install ==
    /\ log = <<>>
    /\ \E out \in _install_library(libname, src, dst, install_map) :
          /\ dst' = out.fs
          /\ log' = Append(log, [pre |-> dst, post |-> out.fs, status |-> out.status])
    /\ UNCHANGED <<src, libname, install_map>>
    /\ UNCHANGED <<plvars, scriptvars>>

NextInstall == Install

SpecInstall == InitInstall /\ [][NextInstall]_vars

----------------------------------------------------------------------------
(* Properties of _install_library, over the call recorded in log under     *)
(* SpecInstall.                                                            *)

TopChildren == Children(src, <<>>)
LibChildren == UNION {Children(src, v \o <<libname>>) : v \in TopChildren}

(* Two or more candidates at one of the two version-scoped levels. *)
AmbiguousLayout == Cardinality(TopChildren) >= 2 \/ Cardinality(LibChildren) >= 2

(* Exactly one candidate at each of the two version-scoped levels. *)
OneCandidateEach == Cardinality(TopChildren) = 1 /\ Cardinality(LibChildren) = 1

(* The top-level entries of the payload directory. *)
PayloadChildren == UNION {Children(src, d) : d \in LibChildren}
PayloadDirs == {c \in PayloadChildren : IsDir(src, c)}
PayloadFiles == {c \in PayloadChildren : ~IsDir(src, c)}

(* Everything below the source directory sp is found below dp in D: the    *)
(* directories as directories, the files with their content.               *)
MergedInto(sp, D, dp) ==
    /\ IsDir(D, dp)
    /\ \A q \in DOMAIN src :
          (Len(q) > Len(sp) /\ SubSeq(q, 1, Len(sp)) = sp) =>
              LET r == dp \o SubSeq(q, Len(sp) + 1, Len(q))
              IN  r \in DOMAIN D /\ D[r] = src[q]

\* C3: a vendor tree with two or more children at either version-scoped
\* level makes installLibrary fail, and the destination tree is the same
\* after the failure as before the call.
C3_AmbiguousLayoutFails ==
    \A i \in 1..Len(log) :
        AmbiguousLayout => log[i].status # "ok" /\ log[i].post = log[i].pre

(* A call on a tree with one version directory and two library versions,   *)
(* a payload to install and a destination that is not empty.               *)
C3_Witness ==
    /\ Len(log) = 1
    /\ Cardinality(TopChildren) = 1
    /\ Cardinality(LibChildren) >= 2
    /\ PayloadDirs # {}
    /\ DOMAIN log[1].pre # {}
    /\ log[1].status = "AssertionError"

\* C4: with exactly one child at each of the two version-scoped levels,
\* whatever mix of directories and files the payload directory holds,
\* installLibrary into an existing destination root completes without error.
\* It is stated on the calls into a destination root that exists and is
\* empty, where nothing of the destination can stand in the way.
C4_UnambiguousLayoutInstalls ==
    \A i \in 1..Len(log) :
        (OneCandidateEach /\ DOMAIN log[i].pre = {}) => log[i].status = "ok"

\* C5: each top-level regular file of the payload directory is copied to
\* destRoot under its mapped name (identity when the map has no entry), so
\* that destRoot/mappedName exists with the source file's content.
C5_PayloadFilesCopied ==
    \A i \in 1..Len(log) :
        OneCandidateEach =>
            \A c \in PayloadFiles :
                LET d == <<dest_name(install_map, Last(c))>>
                IN  IsFile(log[i].post, d) /\ log[i].post[d] = src[c]

\* C6: with exactly one version directory under the source root and no
\* subdirectory named after the library in it, installLibrary returns
\* normally and the destination tree is unchanged.
C6_MissingLibrarySkipped ==
    \A i \in 1..Len(log) :
        (/\ Cardinality(TopChildren) = 1
         /\ \A v \in TopChildren : IsDir(src, v) /\ ~Exists(src, v \o <<libname>>))
            => log[i].status = "ok" /\ log[i].post = log[i].pre

(* A call for a library the vendor tree does not hold, beside one it does  *)
(* hold, with a destination that is not empty.                             *)
C6_Witness ==
    /\ Len(log) = 1
    /\ Cardinality(TopChildren) = 1
    /\ \A v \in TopChildren : ~Exists(src, v \o <<libname>>)
    /\ \E v \in TopChildren : Children(src, v) # {}
    /\ DOMAIN log[1].pre # {}
    /\ log[1].status = "ok"

\* C7: every payload entry that is a directory is merged into
\* destRoot/nameMap[name] when its name is a key of nameMap and into
\* destRoot/name when it is not; no payload directory is dropped or merged
\* anywhere else.
\* It is stated on the calls into a destination root that is empty, where
\* nothing of the destination can stand in the way of a merge.
C7_PayloadDirsMerged ==
    \A i \in 1..Len(log) :
        (OneCandidateEach /\ DOMAIN log[i].pre = {}) =>
            /\ \A c \in PayloadDirs :
                  MergedInto(c, log[i].post, <<dest_name(install_map, Last(c))>>)
            /\ \A p \in DOMAIN log[i].post :
                  (p \notin DOMAIN log[i].pre \/ log[i].post[p] # log[i].pre[p]) =>
                      \E c \in PayloadDirs : p[1] = dest_name(install_map, Last(c))

(* The mapping alone: a call into an empty destination that returns        *)
(* normally has merged every payload directory under its mapped name.      *)
PayloadDirsMergedOnReturn ==
    \A i \in 1..Len(log) :
        (OneCandidateEach /\ log[i].status = "ok" /\ DOMAIN log[i].pre = {}) =>
            \A c \in PayloadDirs :
                MergedInto(c, log[i].post, <<dest_name(install_map, Last(c))>>)

----------------------------------------------------------------------------
(* dist.py: the build and verify pipelines of Controller.                  *)
(*                                                                         *)
(* Each method runs stage by stage; pc names the stage about to run.  An   *)
(* external command, a copy of a caller's tree and the removal of the      *)
(* working directory can each fail, as the environment decides.            *)

MaxSystems == 2

Pipelines == {"build_linux", "build_windows", "verify_linux", "verify_windows"}
Targets == {"sdist", "wheel-linux", "wheel-win", "other"}
CudaVersions == {"None", "11.0", "unknown"}
Kinds == {"cuda", "rocm", "other"}
NcclTypes == {"v1-deb", "v2-tar", "unknown"}
(* The OS family markers _create_verifier_linux looks for in an image name; *)
(* an image name is modelled by the set of markers it contains.             *)
Markers == {"rhel", "centos", "ubuntu", "rocm"}
ImageNames == {{"centos"}, {"ubuntu"}, {"rocm"}, {"rhel", "ubuntu"}, {}}
SystemLists == UNION {[1..n -> ImageNames] : n \in 0..MaxSystems}

(* The state of the run that a stage works on: [staged, cmds, exc]. *)
Run == [staged |-> staged, cmds |-> cmds, exc |-> "none"]

(* run_command / run_command_output: the command is run and              *)
(* subprocess.check_call raises CalledProcessError on a non-zero exit.     *)
run_command(r, cmd) ==
    IF r.exc # "none" THEN {r}
    ELSE {[r EXCEPT !.cmds = Append(@, cmd)],
          [r EXCEPT !.cmds = Append(@, cmd), !.exc = "CalledProcessError"]}

(* A step on the working directory that puts `items` there, and may fail   *)
(* with `err` having put nothing.                                          *)
Stage(r, items, err) ==
    IF r.exc # "none" THEN {r}
    ELSE {[r EXCEPT !.staged = @ \cup items], [r EXCEPT !.exc = err]}

(* A step on the working directory that cannot fail. *)
Place(r, items) ==
    IF r.exc # "none" THEN r ELSE [r EXCEPT !.staged = @ \cup items]

Raise(r, err) == IF r.exc # "none" THEN r ELSE [r EXCEPT !.exc = err]

(* extract_nccl_archive(nccl_config, nccl_assets, dest_dir) *)
extract_nccl_archive(r, nccl_type, dest) ==
    IF nccl_type = "v1-deb"
    THEN {Place(q, {dest \o "/lib", dest \o "/include"}) : q \in run_command(r, "dpkg")}
    ELSE IF nccl_type = "v2-tar"
    THEN {Place(q, {dest \o "/lib", dest \o "/include"}) : q \in run_command(r, "tar")}
    ELSE {Raise(r, "RuntimeError")}

(* get_cudnn_record(cuda_version, platform): the installer is run in dump  *)
(* mode; a record for the CUDA version is found or RuntimeError is raised. *)
get_cudnn_record(r) ==
    UNION {{q, Raise(q, "RuntimeError")} : q \in run_command(r, "install_library")}

(* download_extract_cudnn_archive(url, dest_dir) *)
download_extract_cudnn_archive(r, dest) ==
    UNION {Stage(q, {dest \o "/cuda"}, "OSError") : q \in run_command(r, "curl")}

(* What `try: ... finally:` does with an exception raised in the try block: *)
(* the finally block runs next, with the exception in flight.               *)
NoFinally(err) == [pc |-> "done", exc |-> err, outcome |-> err]

Finally(err) == [pc |-> "Cleanup", exc |-> err, outcome |-> "running"]

(* A try block that carries on with the next stage whatever was raised. *)
ContinueAnyway(r, next) ==
    /\ staged' = r.staged
    /\ cmds' = r.cmds
    /\ pc' = next
    /\ exc' = exc
    /\ outcome' = outcome

(* The end of a stage inside the try block: on to `next`, or to the        *)
(* finally block.                                                          *)
Continue(r, next) ==
    /\ staged' = r.staged
    /\ cmds' = r.cmds
    /\ IF r.exc = "none"
       THEN pc' = next /\ exc' = exc /\ outcome' = outcome
       ELSE LET f == Finally(r.exc)
            IN  pc' = f.pc /\ exc' = f.exc /\ outcome' = f.outcome

(* A caller that carries on with the next stage whatever was raised. *)
ProceedAnyway(r, next) ==
    /\ staged' = r.staged
    /\ cmds' = r.cmds
    /\ exc' = exc
    /\ pc' = next
    /\ outcome' = outcome

(* The end of a stage outside any try block: on to `next`, or the          *)
(* exception reaches the caller.                                           *)
Proceed(r, next) ==
    /\ staged' = r.staged
    /\ cmds' = r.cmds
    /\ exc' = exc
    /\ IF r.exc = "none"
       THEN pc' = next /\ outcome' = outcome
       ELSE pc' = "done" /\ outcome' = r.exc

Enter(stage) == stages' = Append(stages, stage)

At(method, stage) == pipeline = method /\ pc = stage /\ outcome = "running"

(* workdir = tempfile.mkdtemp(prefix='cupy-dist-') *)
mkdtemp(next) ==
    /\ Enter("CreateWorkdir")
    /\ \/ /\ workdirs' = Append(workdirs, [state |-> "live", rmtree |-> "none"])
          /\ staged' = {}
          /\ pc' = next
          /\ outcome' = outcome
       \/ /\ pc' = "done"
          /\ outcome' = "OSError"
          /\ UNCHANGED <<workdirs, staged>>
    /\ UNCHANGED <<pipeline, target, cuda_version, nccl_assets, cfg, host, exc,
                   metadata, images, cmds, output, hostfs, sysidx>>

(* The working directory after shutil.rmtree(workdir). *)
Removed(ok) ==
    [workdirs EXCEPT ![Len(workdirs)] =
        IF ok THEN [state |-> "removed", rmtree |-> "ok"]
        ELSE [state |-> "live", rmtree |-> "failed"]]

(* What the caller gets when the finally block is left normally. *)
Completed == IF exc = "none" THEN "returned" ELSE exc

InitPipeline ==
    /\ pipeline \in Pipelines
    /\ target \in Targets
    /\ cuda_version \in CudaVersions
    /\ nccl_assets \in {"None", "assets"}
    /\ cfg = NoCfg
    /\ host = NoHost
    /\ pc = IF pipeline \in {"build_windows", "verify_windows"}
            THEN "CheckEnvironment" ELSE "ResolveConfig"
    /\ exc = "none"
    /\ outcome = "running"
    /\ workdirs = <<>>
    /\ staged = {}
    /\ metadata = NoMetadata
    /\ images = {}
    /\ cmds = <<>>
    /\ output = {}
    /\ hostfs = {}
    /\ sysidx = 0
    /\ stages = <<>>
    /\ IdleInstaller
    /\ IdleScript

----------------------------------------------------------------------------
(* Controller.build_linux *)

(* wheel_name(package, version, python, platform) and                      *)
(* sdist_name(package, version) of dist_utils: the file name of a          *)
(* distribution.                                                           *)
wheel_name(package, version, python, platform) ==
    package \o "-" \o version \o "-" \o python \o "-" \o platform \o ".whl"

sdist_name(package, version) == package \o "-" \o version \o ".tar.gz"

(* The version read from the source tree, the python tag asked for, and    *)
(* the package name the configuration gives a kind of wheel.               *)
SourceVersion == "9.0.0"
PythonTag == "cp38"
PackageNames == {"cupy-cuda110", "cupy-rocm-4-0"}
package_name(kind) == IF kind = "rocm" THEN "cupy-rocm-4-0" ELSE "cupy-cuda110"

(* Lines 278-369: everything before the working directory is created. *)
build_linux_ResolveConfig ==
    /\ At("build_linux", "ResolveConfig")
    /\ Enter("ResolveConfig")
    /\ \E kind \in Kinds, nccl \in NcclTypes \cup {"None"} :
        LET bad == IF target = "wheel-linux"
                   THEN IF cuda_version = "None" THEN "AssertionError"
                        ELSE IF cuda_version = "unknown" THEN "KeyError"
                        ELSE IF kind \notin {"cuda", "rocm"} THEN "AssertionError"
                        ELSE "none"
                   ELSE IF target = "sdist"
                   THEN IF cuda_version # "None" THEN "AssertionError" ELSE "none"
                   ELSE "RuntimeError"
            query == target = "wheel-linux" /\ kind = "cuda"
        IN  \E r \in (IF bad # "none" THEN {Raise(Run, bad)}
                      ELSE IF query THEN get_cudnn_record(Run) ELSE {Run}) :
              /\ Proceed(r, "CreateWorkdir")
              /\ cfg' = IF r.exc # "none" THEN cfg
                        ELSE IF target = "wheel-linux"
                        THEN [kind |-> kind,
                              nccl_config |-> IF kind = "cuda" THEN nccl ELSE "None",
                              cudnn_version |-> IF kind = "cuda" THEN "cudnn-8" ELSE "None",
                              asset_name |-> wheel_name(package_name(kind),
                                  SourceVersion, PythonTag, "linux_x86_64"),
                              asset_dest_name |-> wheel_name(package_name(kind),
                                  SourceVersion, PythonTag, "manylinux1_x86_64"),
                              systems |-> <<>>]
                        ELSE [kind |-> "cuda", nccl_config |-> "None",
                              cudnn_version |-> "None",
                              asset_name |-> sdist_name("cupy", SourceVersion),
                              asset_dest_name |-> sdist_name("cupy", SourceVersion),
                              systems |-> <<>>]
    /\ UNCHANGED <<pipeline, target, cuda_version, nccl_assets, host, workdirs,
                   metadata, images, output, hostfs, sysidx>>
    /\ UNCHANGED <<fsvars, scriptvars>>

(* Line 372 *)
build_linux_CreateWorkdir ==
    /\ At("build_linux", "CreateWorkdir")
    /\ mkdtemp("StageSource")
    /\ UNCHANGED <<fsvars, scriptvars>>

(* Lines 375-388: the source tree, the long description, the builder       *)
(* directory.                                                              *)
build_linux_StageSource ==
    /\ At("build_linux", "StageSource")
    /\ Enter("StageSource")
    /\ \E r1 \in Stage(Run, {"cupy"}, "OSError") :
       \E r2 \in Stage(Place(r1, {"description.rst"}), {"builder"}, "OSError") :
          Continue(r2, "StageAccelerators")
    /\ UNCHANGED <<pipeline, target, cuda_version, nccl_assets, cfg, host,
                   workdirs, metadata, images, output, hostfs, sysidx>>
    /\ UNCHANGED <<fsvars, scriptvars>>

(* The stage with each directory made only when its library is configured. *)
build_linux_StageAcceleratorsIfConfigured ==
    /\ At("build_linux", "StageAccelerators")
    /\ Enter("StageAccelerators")
    /\ LET nccl == IF cfg.nccl_config # "None"
                   THEN extract_nccl_archive(Place(Run, {"builder/nccl"}),
                                             cfg.nccl_config, "builder/nccl")
                   ELSE {Run}
           cudnn(r) == IF cfg.cudnn_version # "None"
                       THEN download_extract_cudnn_archive(
                                Place(r, {"builder/cudnn"}), "builder/cudnn")
                       ELSE {r}
       IN  \E r1 \in nccl : \E r2 \in cudnn(r1) : Continue(r2, "WriteMetadata")
    /\ UNCHANGED <<pipeline, target, cuda_version, nccl_assets, cfg, host,
                   workdirs, metadata, images, output, hostfs, sysidx>>
    /\ UNCHANGED <<fsvars, scriptvars>>

(* Lines 390-410: the nccl and cudnn directories of the builder context. *)
build_linux_StageAccelerators ==
    /\ At("build_linux", "StageAccelerators")
    /\ Enter("StageAccelerators")
    /\ LET r0 == Place(Run, {"builder/nccl"})
           nccl == IF cfg.nccl_config # "None"
                   THEN extract_nccl_archive(r0, cfg.nccl_config, "builder/nccl")
                   ELSE {r0}
           cudnn(r) == IF cfg.cudnn_version # "None"
                       THEN download_extract_cudnn_archive(
                                Place(r, {"builder/cudnn"}), "builder/cudnn")
                       ELSE {Place(r, {"builder/cudnn"})}
       IN  \E r1 \in nccl : \E r2 \in cudnn(r1) : Continue(r2, "WriteMetadata")
    /\ UNCHANGED <<pipeline, target, cuda_version, nccl_assets, cfg, host,
                   workdirs, metadata, images, output, hostfs, sysidx>>
    /\ UNCHANGED <<fsvars, scriptvars>>

(* The stage with the metadata written whatever the target. *)
build_linux_WriteMetadataAlways ==
    /\ At("build_linux", "WriteMetadata")
    /\ Enter("WriteMetadata")
    /\ metadata' = [cuda |-> cuda_version,
                    cudnn |-> IF cfg.cudnn_version # "None"
                              THEN cfg.cudnn_version ELSE "absent"]
    /\ Continue(Place(Run, {"_wheel.json"}), "CreateBuildEnvironment")
    /\ UNCHANGED <<pipeline, target, cuda_version, nccl_assets, cfg, host,
                   workdirs, images, output, hostfs, sysidx>>
    /\ UNCHANGED <<fsvars, scriptvars>>

(* Lines 412-424 *)
build_linux_WriteMetadata ==
    /\ At("build_linux", "WriteMetadata")
    /\ Enter("WriteMetadata")
    /\ IF target = "wheel-linux"
       THEN /\ metadata' = [cuda |-> cuda_version,
                            cudnn |-> IF cfg.cudnn_version # "None"
                                      THEN cfg.cudnn_version ELSE "absent"]
            /\ Continue(Place(Run, {"_wheel.json"}), "CreateBuildEnvironment")
       ELSE /\ metadata' = metadata
            /\ Continue(Run, "CreateBuildEnvironment")
    /\ UNCHANGED <<pipeline, target, cuda_version, nccl_assets, cfg, host,
                   workdirs, images, output, hostfs, sysidx>>
    /\ UNCHANGED <<fsvars, scriptvars>>

(* Line 427: _create_builder_linux *)
build_linux_CreateBuildEnvironment ==
    /\ At("build_linux", "CreateBuildEnvironment")
    /\ Enter("CreateBuildEnvironment")
    /\ \E r \in run_command(Run, "docker build") :
          /\ Continue(r, "RunAgent")
          /\ images' = IF r.exc = "none" THEN images \cup {"cupy-builder"} ELSE images
    /\ UNCHANGED <<pipeline, target, cuda_version, nccl_assets, cfg, host,
                   workdirs, metadata, output, hostfs, sysidx>>
    /\ UNCHANGED <<fsvars, scriptvars>>

(* _run_container(image_tag, kind, workdir, agent_args); an agent that     *)
(* exits with 0 has left `products` in the working directory.              *)
_run_container(r, kind, products) ==
    IF kind = "cuda"
    THEN UNION {{Place(q, items) : items \in products} : q \in run_command(r, "nvidia-docker run")}
    ELSE IF kind = "rocm"
    THEN UNION {{Place(q, items) : items \in products} : q \in run_command(r, "docker run")}
    ELSE {Raise(r, "AssertionError")}

(* Lines 429-432 *)
build_linux_RunAgent ==
    /\ At("build_linux", "RunAgent")
    /\ Enter("RunAgent")
    /\ \E r \in _run_container(Run, cfg.kind,
                               {{}, {"cupy/dist/" \o cfg.asset_name}}) :
          Continue(r, "CollectArtifact")
    /\ UNCHANGED <<pipeline, target, cuda_version, nccl_assets, cfg, host,
                   workdirs, metadata, images, output, hostfs, sysidx>>
    /\ UNCHANGED <<fsvars, scriptvars>>

(* A collection that writes the output whether or not the agent left the   *)
(* artifact.                                                               *)
CollectArtifactStale(next) ==
    /\ Enter("CollectArtifact")
    /\ output' = output \cup {cfg.asset_dest_name}
    /\ Continue(Run, next)
    /\ UNCHANGED <<pipeline, target, cuda_version, nccl_assets, cfg, host,
                   workdirs, metadata, images, hostfs, sysidx>>

(* A collection that keeps the name the agent produced. *)
CollectArtifactSameName(next) ==
    /\ Enter("CollectArtifact")
    /\ IF ("cupy/dist/" \o cfg.asset_name) \in staged
       THEN \/ /\ output' = output \cup {cfg.asset_name}
               /\ Continue(Run, next)
            \/ /\ output' = output
               /\ Continue(Raise(Run, "OSError"), next)
       ELSE /\ output' = output
            /\ Continue(Raise(Run, "OSError"), next)
    /\ UNCHANGED <<pipeline, target, cuda_version, nccl_assets, cfg, host,
                   workdirs, metadata, images, hostfs, sysidx>>

(* shutil.copy2(asset_path, output_path) at the end of a build: a source   *)
(* that does not exist fails before the output is opened; a copy that      *)
(* fails later (while writing, or in copystat) has created the output file. *)
CollectArtifact(next) ==
    /\ Enter("CollectArtifact")
    /\ IF ("cupy/dist/" \o cfg.asset_name) \in staged
       THEN \/ /\ output' = output \cup {cfg.asset_dest_name}
               /\ Continue(Run, next)
            \/ /\ output' \in {output, output \cup {cfg.asset_dest_name}}
               /\ Continue(Raise(Run, "OSError"), next)
       ELSE /\ output' = output
            /\ Continue(Raise(Run, "OSError"), next)
    /\ UNCHANGED <<pipeline, target, cuda_version, nccl_assets, cfg, host,
                   workdirs, metadata, images, hostfs, sysidx>>

(* Lines 434-438 *)
build_linux_CollectArtifact ==
    /\ At("build_linux", "CollectArtifact")
    /\ CollectArtifact("Cleanup")
    /\ UNCHANGED <<fsvars, scriptvars>>

(* A finally block that calls shutil.rmtree(workdir) bare: an OSError of   *)
(* the removal leaves the block as the exception of the run.               *)
CleanupBare ==
    /\ Enter("Cleanup")
    /\ \E ok \in BOOLEAN :
          /\ workdirs' = Removed(ok)
          /\ outcome' = IF ok THEN Completed ELSE "OSError"
    /\ pc' = "done"
    /\ UNCHANGED <<pipeline, target, cuda_version, nccl_assets, cfg, host, exc,
                   staged, metadata, images, cmds, output, hostfs, sysidx>>

(* Lines 440-442 *)
build_linux_Cleanup ==
    /\ At("build_linux", "Cleanup")
    /\ CleanupBare
    /\ UNCHANGED <<fsvars, scriptvars>>

----------------------------------------------------------------------------
(* Controller.build_windows *)

(* A check that takes any CUDA runtime the host has. *)
_check_windows_environmentAnyCudart(r, h) ==
    IF h.platform # "win32" THEN Raise(r, "RuntimeError")
    ELSE IF cuda_version # "11.0" THEN Raise(r, "KeyError")
    ELSE IF h.cudart = "none" THEN Raise(r, "RuntimeError")
    ELSE r

(* _check_windows_environment(cuda_version, python_version): the platform, *)
(* the python version (a difference is only logged) and the CUDA runtime   *)
(* of the host.                                                            *)
_check_windows_environment(r, h) ==
    IF h.platform # "win32" THEN Raise(r, "RuntimeError")
    ELSE IF cuda_version # "11.0" THEN Raise(r, "KeyError")
    ELSE IF h.cudart = "none" THEN Raise(r, "RuntimeError")
    ELSE IF h.cudart # "match" THEN Raise(r, "RuntimeError")
    ELSE r

Hosts == [platform : {"win32", "linux"}, python_matches : BOOLEAN,
          cudart : {"none", "mismatch", "match"}]

CheckEnvironment ==
    /\ Enter("CheckEnvironment")
    /\ \E h \in Hosts :
          /\ host' = h
          /\ Proceed(_check_windows_environment(Run, h), "ResolveConfig")
    /\ UNCHANGED <<pipeline, target, cuda_version, nccl_assets, cfg, workdirs,
                   metadata, images, output, hostfs, sysidx>>

(* Line 477 *)
build_windows_CheckEnvironment ==
    /\ At("build_windows", "CheckEnvironment")
    /\ CheckEnvironment
    /\ UNCHANGED <<fsvars, scriptvars>>

(* Lines 479-520 *)
build_windows_ResolveConfig ==
    /\ At("build_windows", "ResolveConfig")
    /\ Enter("ResolveConfig")
    /\ \E libs_found \in BOOLEAN :
        LET bad == IF target # "wheel-win" THEN "ValueError"
                   ELSE IF nccl_assets # "None" THEN "RuntimeError"
                   ELSE IF ~libs_found THEN "RuntimeError"
                   ELSE "none"
            r == Raise(Run, bad)
        IN  /\ Proceed(IF bad = "none" THEN Run ELSE r, "CreateWorkdir")
            /\ cfg' = IF bad # "none" THEN cfg
                      ELSE [kind |-> "cuda", nccl_config |-> "None",
                            cudnn_version |-> "None",
                            asset_name |-> wheel_name(package_name("cuda"),
                                SourceVersion, PythonTag, "win_amd64"),
                            asset_dest_name |-> wheel_name(package_name("cuda"),
                                SourceVersion, PythonTag, "win_amd64"),
                            systems |-> <<>>]
    /\ UNCHANGED <<pipeline, target, cuda_version, nccl_assets, host, workdirs,
                   metadata, images, output, hostfs, sysidx>>
    /\ UNCHANGED <<fsvars, scriptvars>>

(* Line 523 *)
build_windows_CreateWorkdir ==
    /\ At("build_windows", "CreateWorkdir")
    /\ mkdtemp("StageSource")
    /\ UNCHANGED <<fsvars, scriptvars>>

(* Lines 526-534 *)
build_windows_StageSource ==
    /\ At("build_windows", "StageSource")
    /\ Enter("StageSource")
    /\ \E r \in Stage(Run, {"cupy"}, "OSError") :
          Continue(Place(r, {"description.rst"}), "StageAccelerators")
    /\ UNCHANGED <<pipeline, target, cuda_version, nccl_assets, cfg, host,
                   workdirs, metadata, images, output, hostfs, sysidx>>
    /\ UNCHANGED <<fsvars, scriptvars>>

(* Lines 536-549: the cuDNN record, the archive, and its installation into *)
(* the host's CUDA_PATH by install_cudnn_windows.                          *)
build_windows_StageAccelerators ==
    /\ At("build_windows", "StageAccelerators")
    /\ Enter("StageAccelerators")
    /\ \E r1 \in get_cudnn_record(Run) :
       \E r2 \in download_extract_cudnn_archive(r1, "cudnn") :
          IF r2.exc # "none"
          THEN /\ Continue(r2, "WriteMetadata")
               /\ UNCHANGED <<cfg, hostfs>>
          ELSE \/ /\ hostfs' = hostfs \cup {"cudnn"}
                  /\ cfg' = [cfg EXCEPT !.cudnn_version = "cudnn-8"]
                  /\ Continue(r2, "WriteMetadata")
               \/ /\ hostfs' \in {hostfs, hostfs \cup {"cudnn (partly)"}}
                  /\ cfg' = [cfg EXCEPT !.cudnn_version = "cudnn-8"]
                  /\ Continue(Raise(r2, "OSError"), "WriteMetadata")
    /\ UNCHANGED <<pipeline, target, cuda_version, nccl_assets, host,
                   workdirs, metadata, images, output, sysidx>>
    /\ UNCHANGED <<fsvars, scriptvars>>

(* Lines 551-561 *)
build_windows_WriteMetadata ==
    /\ At("build_windows", "WriteMetadata")
    /\ Enter("WriteMetadata")
    /\ metadata' = [cuda |-> cuda_version, cudnn |-> cfg.cudnn_version]
    /\ Continue(Place(Run, {"_wheel.json"}), "RunAgent")
    /\ UNCHANGED <<pipeline, target, cuda_version, nccl_assets, cfg, host,
                   workdirs, images, output, hostfs, sysidx>>
    /\ UNCHANGED <<fsvars, scriptvars>>

(* The agent run as a subprocess of the controller (Windows); an agent     *)
(* that exits with 0 has left `products` in the working directory.         *)
run_agent(r, products) ==
    UNION {{Place(q, items) : items \in products} : q \in run_command(r, "agent.py")}

(* Lines 563-568 *)
build_windows_RunAgent ==
    /\ At("build_windows", "RunAgent")
    /\ Enter("RunAgent")
    /\ \E r \in run_agent(Run, {{}, {"cupy/dist/" \o cfg.asset_name}}) :
          Continue(r, "CollectArtifact")
    /\ UNCHANGED <<pipeline, target, cuda_version, nccl_assets, cfg, host,
                   workdirs, metadata, images, output, hostfs, sysidx>>
    /\ UNCHANGED <<fsvars, scriptvars>>

(* Lines 570-574 *)
build_windows_CollectArtifact ==
    /\ At("build_windows", "CollectArtifact")
    /\ CollectArtifact("Cleanup")
    /\ UNCHANGED <<fsvars, scriptvars>>

(* Lines 576-586: the OSError of shutil.rmtree is caught and logged. *)
build_windows_Cleanup ==
    /\ At("build_windows", "Cleanup")
    /\ Enter("Cleanup")
    /\ \E ok \in BOOLEAN : workdirs' = Removed(ok)
    /\ outcome' = Completed
    /\ pc' = "done"
    /\ UNCHANGED <<pipeline, target, cuda_version, nccl_assets, cfg, host, exc,
                   staged, metadata, images, cmds, output, hostfs, sysidx>>
    /\ UNCHANGED <<fsvars, scriptvars>>

----------------------------------------------------------------------------
(* Controller.verify_linux and Controller._verify_linux *)

(* Lines 593-611, and the head of the loop over the systems (613). *)
verify_linux_ResolveConfig ==
    /\ At("verify_linux", "ResolveConfig")
    /\ Enter("ResolveConfig")
    /\ \E kind \in Kinds, nccl \in NcclTypes \cup {"None"}, systems \in SystemLists :
        LET bad == IF target = "sdist"
                   THEN IF cuda_version # "None" THEN "AssertionError" ELSE "none"
                   ELSE IF target = "wheel-linux"
                   THEN IF cuda_version = "None" THEN "AssertionError"
                        ELSE IF cuda_version = "unknown" THEN "KeyError"
                        ELSE "none"
                   ELSE "RuntimeError"
        IN  IF bad # "none"
            THEN /\ Proceed(Raise(Run, bad), "done")
                 /\ UNCHANGED <<cfg, sysidx>>
            ELSE /\ cfg' = [kind |-> IF target = "sdist" THEN "cuda" ELSE kind,
                            nccl_config |-> IF target = "sdist" THEN nccl ELSE "None",
                            cudnn_version |-> "None",
                            asset_name |-> "None", asset_dest_name |-> "None",
                            systems |-> systems]
                 /\ staged' = staged /\ cmds' = cmds /\ exc' = exc
                 /\ IF systems = <<>>
                    THEN pc' = "done" /\ outcome' = "returned" /\ sysidx' = sysidx
                    ELSE pc' = "CreateWorkdir" /\ outcome' = outcome /\ sysidx' = 1
    /\ UNCHANGED <<pipeline, target, cuda_version, nccl_assets, host, workdirs,
                   metadata, images, output, hostfs>>
    /\ UNCHANGED <<fsvars, scriptvars>>

(* Line 643 *)
verify_linux_CreateWorkdir ==
    /\ At("verify_linux", "CreateWorkdir")
    /\ mkdtemp("StageDistAndTests")
    /\ UNCHANGED <<fsvars, scriptvars>>

(* The distribution and the tests copied into the working directory. *)
StageDistAndTests(r) ==
    UNION {Stage(Place(q, {"tests"}), {"tests/cupy_tests"}, "OSError") :
               q \in Stage(r, {"dist"}, "OSError")}

(* Lines 646-657 *)
verify_linux_StageDistAndTests ==
    /\ At("verify_linux", "StageDistAndTests")
    /\ Enter("StageDistAndTests")
    /\ \E r \in StageDistAndTests(Run) : Continue(r, "StageVerifyEnvironment")
    /\ UNCHANGED <<pipeline, target, cuda_version, nccl_assets, cfg, host,
                   workdirs, metadata, images, output, hostfs, sysidx>>
    /\ UNCHANGED <<fsvars, scriptvars>>

(* The choice with the Debian markers looked for first. *)
TemplateDebianFirst(image) ==
    IF image \cap {"ubuntu", "rocm"} # {} THEN "debian"
    ELSE IF image \cap {"rhel", "centos"} # {} THEN "rhel"
    ELSE "none"

(* The Dockerfile template _create_verifier_linux chooses for an image. *)
Template(image) ==
    IF image \cap {"rhel", "centos"} # {} THEN "rhel"
    ELSE IF image \cap {"ubuntu", "rocm"} # {} THEN "debian"
    ELSE "none"

(* _create_verifier_linux(image_tag, base_image, docker_ctx) *)
_create_verifier_linux(r, image) ==
    IF Template(image) = "none" THEN {Raise(r, "RuntimeError")}
    ELSE run_command(Place(r, {"verifier/Dockerfile." \o Template(image)}),
                     "docker build")

(* Lines 659-675: the verifier directory, the nccl directory and the       *)
(* verifier image.                                                         *)
verify_linux_StageVerifyEnvironment ==
    /\ At("verify_linux", "StageVerifyEnvironment")
    /\ Enter("StageVerifyEnvironment")
    /\ \E r1 \in Stage(Run, {"verifier"}, "OSError") :
       \E r2 \in (IF cfg.nccl_config # "None"
                  THEN extract_nccl_archive(Place(r1, {"verifier/nccl"}),
                                            cfg.nccl_config, "verifier/nccl")
                  ELSE {Place(r1, {"verifier/nccl"})}) :
       \E r3 \in _create_verifier_linux(r2, cfg.systems[sysidx]) :
          /\ Continue(r3, "RunAgent")
          /\ images' = IF r3.exc = "none"
                       THEN images \cup {<<"cupy-verifier", sysidx>>} ELSE images
    /\ UNCHANGED <<pipeline, target, cuda_version, nccl_assets, cfg, host,
                   workdirs, metadata, output, hostfs, sysidx>>
    /\ UNCHANGED <<fsvars, scriptvars>>

(* Lines 677-680 *)
verify_linux_RunAgent ==
    /\ At("verify_linux", "RunAgent")
    /\ Enter("RunAgent")
    /\ \E r \in _run_container(Run, cfg.kind, {{}}) : Continue(r, "Cleanup")
    /\ UNCHANGED <<pipeline, target, cuda_version, nccl_assets, cfg, host,
                   workdirs, metadata, images, output, hostfs, sysidx>>
    /\ UNCHANGED <<fsvars, scriptvars>>

(* A cleanup that logs a failed removal and goes on with the next system. *)
verify_linux_CleanupQuiet ==
    /\ At("verify_linux", "Cleanup")
    /\ Enter("Cleanup")
    /\ \E ok \in BOOLEAN : workdirs' = Removed(ok)
    /\ IF exc = "none" /\ sysidx < Len(cfg.systems)
       THEN pc' = "CreateWorkdir" /\ sysidx' = sysidx + 1 /\ outcome' = outcome
       ELSE pc' = "done" /\ sysidx' = sysidx /\ outcome' = Completed
    /\ UNCHANGED <<pipeline, target, cuda_version, nccl_assets, cfg, host, exc,
                   staged, metadata, images, cmds, output, hostfs>>
    /\ UNCHANGED <<fsvars, scriptvars>>

(* Lines 682-684, and the return to the loop of verify_linux (613-621):    *)
(* the next system is verified when this one raised nothing.               *)
verify_linux_Cleanup ==
    /\ At("verify_linux", "Cleanup")
    /\ Enter("Cleanup")
    /\ \E ok \in BOOLEAN :
          /\ workdirs' = Removed(ok)
          /\ IF ok /\ exc = "none" /\ sysidx < Len(cfg.systems)
             THEN pc' = "CreateWorkdir" /\ sysidx' = sysidx + 1 /\ outcome' = outcome
             ELSE /\ pc' = "done"
                  /\ sysidx' = sysidx
                  /\ outcome' = IF ok THEN Completed ELSE "OSError"
    /\ UNCHANGED <<pipeline, target, cuda_version, nccl_assets, cfg, host, exc,
                   staged, metadata, images, cmds, output, hostfs>>
    /\ UNCHANGED <<fsvars, scriptvars>>

----------------------------------------------------------------------------
(* Controller.verify_windows *)

(* Line 692 *)
verify_windows_CheckEnvironment ==
    /\ At("verify_windows", "CheckEnvironment")
    /\ CheckEnvironment
    /\ UNCHANGED <<fsvars, scriptvars>>

(* Lines 694-711 *)
verify_windows_ResolveConfig ==
    /\ At("verify_windows", "ResolveConfig")
    /\ Enter("ResolveConfig")
    /\ LET bad == IF target # "wheel-win" THEN "ValueError"
                  ELSE IF nccl_assets # "None" THEN "RuntimeError"
                  ELSE "none"
       IN  Proceed(IF bad = "none" THEN Run ELSE Raise(Run, bad), "CreateWorkdir")
    /\ UNCHANGED <<pipeline, target, cuda_version, nccl_assets, cfg, host, workdirs,
                   metadata, images, output, hostfs, sysidx>>
    /\ UNCHANGED <<fsvars, scriptvars>>

(* Line 714 *)
verify_windows_CreateWorkdir ==
    /\ At("verify_windows", "CreateWorkdir")
    /\ mkdtemp("StageDistAndTests")
    /\ UNCHANGED <<fsvars, scriptvars>>

(* Lines 716-728 *)
verify_windows_StageDistAndTests ==
    /\ At("verify_windows", "StageDistAndTests")
    /\ Enter("StageDistAndTests")
    /\ \E r \in StageDistAndTests(Run) : Continue(r, "RunAgent")
    /\ UNCHANGED <<pipeline, target, cuda_version, nccl_assets, cfg, host,
                   workdirs, metadata, images, output, hostfs, sysidx>>
    /\ UNCHANGED <<fsvars, scriptvars>>

(* Lines 730-735 *)
verify_windows_RunAgent ==
    /\ At("verify_windows", "RunAgent")
    /\ Enter("RunAgent")
    /\ \E r \in run_agent(Run, {{}}) : Continue(r, "Cleanup")
    /\ UNCHANGED <<pipeline, target, cuda_version, nccl_assets, cfg, host,
                   workdirs, metadata, images, output, hostfs, sysidx>>
    /\ UNCHANGED <<fsvars, scriptvars>>

(* Lines 737-739 *)
verify_windows_Cleanup ==
    /\ At("verify_windows", "Cleanup")
    /\ CleanupBare
    /\ UNCHANGED <<fsvars, scriptvars>>

----------------------------------------------------------------------------
Next ==
    \/ build_linux_ResolveConfig
    \/ build_linux_CreateWorkdir
    \/ build_linux_StageSource
    \/ build_linux_StageAccelerators
    \/ build_linux_WriteMetadata
    \/ build_linux_CreateBuildEnvironment
    \/ build_linux_RunAgent
    \/ build_linux_CollectArtifact
    \/ build_linux_Cleanup
    \/ build_windows_CheckEnvironment
    \/ build_windows_ResolveConfig
    \/ build_windows_CreateWorkdir
    \/ build_windows_StageSource
    \/ build_windows_StageAccelerators
    \/ build_windows_WriteMetadata
    \/ build_windows_RunAgent
    \/ build_windows_CollectArtifact
    \/ build_windows_Cleanup
    \/ verify_linux_ResolveConfig
    \/ verify_linux_CreateWorkdir
    \/ verify_linux_StageDistAndTests
    \/ verify_linux_StageVerifyEnvironment
    \/ verify_linux_RunAgent
    \/ verify_linux_Cleanup
    \/ verify_windows_CheckEnvironment
    \/ verify_windows_ResolveConfig
    \/ verify_windows_CreateWorkdir
    \/ verify_windows_StageDistAndTests
    \/ verify_windows_RunAgent
    \/ verify_windows_Cleanup

Spec == InitPipeline /\ [][Next]_vars

----------------------------------------------------------------------------
(* Properties of the pipelines, under Spec.                                *)

Ended == outcome # "running"

\* C1: in every pipeline run, once the working directory has been created,
\* its removal is attempted on every exit path, after normal completion and
\* after a failure raised at any stage inside the try block: no run ends
\* with a working directory whose removal was never attempted.
C1_CleanupOnEveryExit ==
    \A w \in 1..Len(workdirs) :
        workdirs[w].rmtree = "none" => ~Ended /\ w = Len(workdirs)

(* A build whose agent container exited with a non-zero status, ended with *)
(* that failure, after the working directory was removed.                  *)
C1_Witness ==
    /\ pipeline = "build_linux"
    /\ Ended
    /\ outcome = "CalledProcessError"
    /\ Len(cmds) > 0 /\ cmds[Len(cmds)] = "nvidia-docker run"
    /\ Len(workdirs) = 1
    /\ workdirs[1].rmtree = "ok"

\* C2: in every pipeline, a failure to remove the working directory during
\* Cleanup is logged and not escalated: the run ends as it would have ended
\* had the removal succeeded (it returns, or raises the original failure).
C2_CleanupFailureNotEscalated ==
    (Ended /\ \E w \in 1..Len(workdirs) : workdirs[w].rmtree = "failed")
        => outcome = Completed

(* What holds of the code: build_windows alone absorbs the failure. *)
CleanupFailureAbsorbedOnWindowsBuild ==
    (Ended /\ \E w \in 1..Len(workdirs) : workdirs[w].rmtree = "failed")
        => IF pipeline = "build_windows" THEN outcome = Completed
           ELSE outcome = "OSError"

Range(f) == {f[i] : i \in DOMAIN f}

(* The combinations of target and CUDA version the build methods reject. *)
RejectedCombination ==
    \/ target = "sdist" /\ cuda_version # "None"
    \/ target = "wheel-linux" /\ cuda_version = "None"
    \/ target \notin {"sdist", "wheel-linux", "wheel-win"}

Builds == {"build_linux", "build_windows"}

NoSideEffect ==
    /\ workdirs = <<>>
    /\ staged = {}
    /\ cmds = <<>>
    /\ images = {}
    /\ output = {}
    /\ hostfs = {}
    /\ metadata = NoMetadata

\* C11: ResolveConfig of a build rejects target sdist with a CUDA version,
\* target wheel-linux without a CUDA version, and an unrecognized target: the
\* run ends there with an error, no working directory has been created and
\* no external command has been run.
C11_BadCombinationRejected ==
    (pipeline \in Builds /\ RejectedCombination /\ "ResolveConfig" \in Range(stages))
        => /\ Ended
           /\ outcome \in {"AssertionError", "RuntimeError", "ValueError"}
           /\ stages[Len(stages)] = "ResolveConfig"
           /\ NoSideEffect

(* An sdist build asked for with a CUDA version, rejected. *)
C11_Witness ==
    /\ pipeline = "build_linux"
    /\ target = "sdist" /\ cuda_version = "11.0"
    /\ stages = <<"ResolveConfig">>
    /\ outcome = "AssertionError"
    /\ NoSideEffect

RocmBuild ==
    pipeline = "build_linux" /\ target = "wheel-linux" /\ cfg.kind = "rocm"

\* C12: a wheel-linux build whose configured kind is rocm never runs NCCL
\* extraction and never queries, downloads or extracts cuDNN; it still
\* creates the empty nccl and cudnn directories in the builder context, and
\* writes a wheel metadata object with `cuda` set to the requested version
\* and no `cudnn` key.
C12_RocmSkipsAccelerators ==
    RocmBuild =>
        /\ Range(cmds) \cap {"dpkg", "tar", "install_library", "curl"} = {}
        /\ "StageAccelerators" \in Range(stages) =>
              /\ {"builder/nccl", "builder/cudnn"} \subseteq staged
              /\ staged \cap {"builder/nccl/lib", "builder/nccl/include",
                              "builder/cudnn/cuda"} = {}
        /\ "WriteMetadata" \in Range(stages) =>
              /\ "_wheel.json" \in staged
              /\ metadata = [cuda |-> cuda_version, cudnn |-> "absent"]

(* A rocm build that returned, its metadata written. *)
C12_Witness ==
    /\ RocmBuild
    /\ outcome = "returned"
    /\ cmds = <<"docker build", "docker run">>
    /\ metadata = [cuda |-> "11.0", cudnn |-> "absent"]
    /\ {"builder/nccl", "builder/cudnn", "_wheel.json"} \subseteq staged

WheelTargets == {"wheel-linux", "wheel-win"}

\* C13: the wheel metadata file _wheel.json is written in the working
\* directory if and only if the build target is a wheel (wheel-linux or
\* wheel-win): a build that has run WriteMetadata has the file exactly when
\* its target is a wheel, and no sdist build has it at any point.
C13_MetadataOnlyForWheels ==
    pipeline \in Builds =>
        /\ "_wheel.json" \in staged => target \in WheelTargets
        /\ metadata # NoMetadata <=> "_wheel.json" \in staged
        /\ "WriteMetadata" \in Range(stages) =>
              ("_wheel.json" \in staged <=> target \in WheelTargets)

(* An sdist build that went through WriteMetadata and returned. *)
C13_Witness ==
    /\ pipeline = "build_linux" /\ target = "sdist"
    /\ "WriteMetadata" \in Range(stages)
    /\ outcome = "returned"
    /\ "_wheel.json" \notin staged
    /\ output # {}

Collected == pipeline \in Builds /\ "CollectArtifact" \in Range(stages)

ArtifactMissing == ("cupy/dist/" \o cfg.asset_name) \notin staged

\* C14: in CollectArtifact, when the agent has reported success but no file
\* named asset_name is at <workdir>/cupy/dist/, the build ends in a fatal
\* error, no file is written to the output location, and Cleanup still runs.
C14_MissingArtifactIsFatal ==
    (Collected /\ ArtifactMissing) =>
        /\ output = {}
        /\ exc = "OSError"
        /\ IF Ended
           THEN /\ outcome = "OSError"
                /\ stages[Len(stages)] = "Cleanup"
                /\ workdirs[1].rmtree # "none"
           ELSE pc = "Cleanup"

(* A build whose container exited with 0 without leaving the wheel: ended  *)
(* with the error, the working directory removed.                          *)
C14_Witness ==
    /\ Collected /\ ArtifactMissing
    /\ pipeline = "build_linux" /\ target = "wheel-linux"
    /\ cmds[Len(cmds)] = "nvidia-docker run"
    /\ outcome = "OSError"
    /\ workdirs[1].rmtree = "ok"
    /\ output = {}

\* C15: a wheel-linux build that wrote its artifact read it from the working
\* directory under the name with the platform tag linux_x86_64 and wrote it
\* to the output location under the name with manylinux1_x86_64 (same
\* package, version and python tag); an sdist or wheel-win build wrote it
\* under the name the agent produced.
C15_LinuxWheelRenamed ==
    (pipeline \in Builds /\ output # {}) =>
        IF target = "wheel-linux"
        THEN \E p \in PackageNames :
                /\ ("cupy/dist/" \o wheel_name(p, SourceVersion, PythonTag,
                                               "linux_x86_64")) \in staged
                /\ output = {wheel_name(p, SourceVersion, PythonTag,
                                        "manylinux1_x86_64")}
        ELSE \E n \in {sdist_name("cupy", SourceVersion),
                       wheel_name("cupy-cuda110", SourceVersion, PythonTag,
                                  "win_amd64")} :
                /\ ("cupy/dist/" \o n) \in staged
                /\ output = {n}

(* A rocm wheel built and collected under its manylinux1 name. *)
C15_Witness ==
    /\ pipeline = "build_linux" /\ target = "wheel-linux"
    /\ outcome = "returned"
    /\ "cupy/dist/cupy-rocm-4-0-9.0.0-cp38-linux_x86_64.whl" \in staged
    /\ output = {"cupy-rocm-4-0-9.0.0-cp38-manylinux1_x86_64.whl"}

WindowsRuns == {"build_windows", "verify_windows"}

EnvironmentChecked ==
    pipeline \in WindowsRuns /\ "CheckEnvironment" \in Range(stages)

AbortedAtCheck ==
    /\ Ended
    /\ outcome \in {"RuntimeError", "KeyError"}
    /\ stages = <<"CheckEnvironment">>
    /\ NoSideEffect

\* C16: on Windows the pipeline verifies that the host matches both the
\* requested python version and the requested CUDA runtime version; a
\* mismatch in either one aborts the run before the working directory is
\* created and before any other side effect.
C16_HostMismatchAborts ==
    (EnvironmentChecked /\ (~host.python_matches \/ host.cudart # "match"))
        => AbortedAtCheck

\* C16, as the code has it: a host that is not Windows, or whose CUDA
\* runtime is missing or is not the requested version, aborts the run before
\* the working directory is created and before any other side effect; a
\* python version that differs from the requested one is only logged.
C16_CudaMismatchAborts ==
    (EnvironmentChecked /\ (host.platform # "win32" \/ host.cudart # "match"))
        => AbortedAtCheck

(* A Windows host with another CUDA runtime: the run ended at the check. *)
C16_Witness ==
    /\ EnvironmentChecked
    /\ host.platform = "win32" /\ host.python_matches /\ host.cudart = "mismatch"
    /\ cuda_version = "11.0"
    /\ outcome = "RuntimeError"
    /\ AbortedAtCheck

(* A build that went on under another python version than requested. *)
PythonMismatchTolerated ==
    /\ EnvironmentChecked
    /\ ~host.python_matches
    /\ outcome = "returned"
    /\ output # {}

ContainerRuns ==
    Cardinality({k \in DOMAIN cmds : cmds[k] \in {"nvidia-docker run", "docker run"}})

(* The systems before the one under verification were verified, each in    *)
(* its own working directory and container; nothing was done for a system  *)
(* after it.                                                               *)
SystemsInOrder ==
    /\ sysidx <= Len(cfg.systems)
    /\ Len(workdirs) <= sysidx
    /\ \A i \in 1..Len(cfg.systems) :
          /\ i < sysidx => /\ <<"cupy-verifier", i>> \in images
                           /\ workdirs[i].rmtree = "ok"
          /\ i > sysidx => <<"cupy-verifier", i>> \notin images
    /\ ContainerRuns <= sysidx
    /\ ContainerRuns >= sysidx - 1
    /\ outcome = "returned" =>
          sysidx = Len(cfg.systems) /\ ContainerRuns = Len(cfg.systems)

\* C17: the Linux verify phase processes the configured systems one at a
\* time in list order, one container per system; when the verification of
\* system i fails, that failure is propagated to the caller and no image is
\* built and no container is run for any system after i.
C17_FirstFailureStopsVerification ==
    pipeline = "verify_linux" =>
        /\ SystemsInOrder
        /\ (Ended /\ exc # "none") => outcome = exc

(* What holds of the code: the order, one container per system, and a run  *)
(* that stops at the first failure and never returns normally after it.    *)
VerificationStopsAtFirstFailure ==
    pipeline = "verify_linux" =>
        /\ SystemsInOrder
        /\ (Ended /\ exc # "none") =>
              /\ outcome # "returned"
              /\ outcome # exc => workdirs[Len(workdirs)].rmtree = "failed"

(* The RuntimeError of _create_verifier_linux is in flight: inside the try  *)
(* block of _verify_linux a RuntimeError comes from there or from an        *)
(* unknown NCCL asset type.                                                 *)
UnrecognizedImageRaised ==
    /\ pipeline = "verify_linux"
    /\ exc = "RuntimeError"
    /\ cfg.nccl_config # "unknown"

\* C18: every configuration error is raised immediately, before any side
\* effect; stated of the error the claim names, the unrecognized
\* verification base image name: at the moment it is raised no working
\* directory has been created, nothing has been staged and no external
\* command has been run.
C18_UnrecognizedImageBeforeSideEffects ==
    UnrecognizedImageRaised =>
        /\ workdirs = <<>>
        /\ staged = {}
        /\ cmds = <<>>

(* What holds of the code: the errors of ResolveConfig, on the target and   *)
(* the CUDA version, are raised before any side effect.                     *)
CombinationErrorsBeforeSideEffects ==
    (pipeline = "verify_linux" /\ stages = <<"ResolveConfig">>
        /\ Ended /\ outcome # "returned") =>
        /\ outcome \in {"AssertionError", "KeyError", "RuntimeError"}
        /\ NoSideEffect

(* The system under verification has its working directory. *)
Verifying ==
    /\ pipeline = "verify_linux"
    /\ sysidx > 0 /\ Len(workdirs) = sysidx
    /\ workdirs[sysidx].state = "live"

BaseImage == cfg.systems[sysidx]

DockerBuilds == Cardinality({k \in DOMAIN cmds : cmds[k] = "docker build"})

IsRhel(image) == "rhel" \in image \/ "centos" \in image
IsDebian(image) == "ubuntu" \in image \/ "rocm" \in image

\* C19: the verifier template depends only on the base image name: a name
\* containing rhel or centos selects the RHEL template; otherwise a name
\* containing ubuntu or rocm selects the Debian template; a name with none
\* of the four markers raises an error and no container image is built.
C19_TemplateByImageName ==
    Verifying =>
        /\ "verifier/Dockerfile.rhel" \in staged => IsRhel(BaseImage)
        /\ "verifier/Dockerfile.debian" \in staged =>
              ~IsRhel(BaseImage) /\ IsDebian(BaseImage)
        /\ <<"cupy-verifier", sysidx>> \in images =>
              IF IsRhel(BaseImage) THEN "verifier/Dockerfile.rhel" \in staged
              ELSE "verifier/Dockerfile.debian" \in staged
        /\ (~IsRhel(BaseImage) /\ ~IsDebian(BaseImage)) =>
              /\ <<"cupy-verifier", sysidx>> \notin images
              /\ DockerBuilds = sysidx - 1
              /\ {"verifier/Dockerfile.rhel", "verifier/Dockerfile.debian"}
                     \cap staged = {}
              /\ ("verifier/nccl" \in staged /\ cfg.nccl_config = "None")
                    => exc = "RuntimeError"
        /\ pc = "RunAgent" =>
              /\ <<"cupy-verifier", sysidx>> \in images
              /\ IsRhel(BaseImage) \/ IsDebian(BaseImage)

(* An image name with both rhel and ubuntu in it, built from the RHEL      *)
(* template.                                                               *)
C19_Witness ==
    /\ Verifying
    /\ BaseImage = {"rhel", "ubuntu"}
    /\ "verifier/Dockerfile.rhel" \in staged
    /\ <<"cupy-verifier", sysidx>> \in images

(* An image name with no marker: RuntimeError, and no image. *)
UnrecognizedImageRejected ==
    /\ Verifying
    /\ BaseImage = {}
    /\ exc = "RuntimeError"
    /\ images = {}

(* An external command of the run has exited with a non-zero status. *)
CommandFailed == exc = "CalledProcessError" \/ outcome = "CalledProcessError"

\* C20: a non-zero exit of any external command is fatal: the command is
\* not retried, no later stage of the run except Cleanup is executed, and
\* the failure is propagated to the caller.
C20_CommandFailureIsFatal ==
    CommandFailed =>
        /\ pc \in {"Cleanup", "done"}
        /\ Ended => outcome = "CalledProcessError"

(* What holds of the code: after the failure only Cleanup runs, and the    *)
(* run never returns normally; the caller gets another exception only      *)
(* when the removal of the working directory failed.                       *)
CommandFailureEndsRun ==
    CommandFailed =>
        /\ pc \in {"Cleanup", "done"}
        /\ Ended => /\ outcome # "returned"
                    /\ outcome # "CalledProcessError" =>
                          workdirs[Len(workdirs)].rmtree = "failed"

(* After the failure no command is run again and nothing more is staged,   *)
(* built or written.                                                       *)
NothingAfterCommandFailure ==
    [][CommandFailed =>
          /\ cmds' = cmds /\ staged' = staged /\ images' = images
          /\ output' = output /\ metadata' = metadata /\ hostfs' = hostfs]_vars

BuildOrder ==
    <<"ResolveConfig", "StageSource", "StageAccelerators", "WriteMetadata",
      "CreateBuildEnvironment", "RunAgent", "CollectArtifact", "Cleanup">>

\* C21: in every build run a file is written to the output location only
\* after every earlier stage (staging, metadata, environment creation, agent
\* run) has succeeded, and on every failing run the output location is left
\* exactly as it was before the run.
C21_OutputOnlyOnSuccess ==
    pipeline \in Builds =>
        /\ output # {} => "CollectArtifact" \in Range(stages)
        /\ (Ended /\ outcome # "returned") => output = {}

(* What holds of the code: the output is written in CollectArtifact, after *)
(* every earlier stage has succeeded and the agent has left the artifact.  *)
OutputOnlyAfterEveryStage ==
    (pipeline \in Builds /\ output # {}) =>
        /\ "CollectArtifact" \in Range(stages)
        /\ {"cupy", "description.rst", "cupy/dist/" \o cfg.asset_name}
               \subseteq staged
        /\ target \in WheelTargets => "_wheel.json" \in staged
        /\ pipeline = "build_linux" =>
              /\ {"builder", "builder/nccl", "builder/cudnn"} \subseteq staged
              /\ "cupy-builder" \in images
        /\ cmds # <<>>
        /\ cmds[Len(cmds)] \in {"nvidia-docker run", "docker run", "agent.py"}

(* The stages of the run, the creation of the working directory apart. *)
StagesRun == SelectSeq(stages, LAMBDA s : s # "CreateWorkdir")

\* C22: the Linux build executes its stages strictly in the order
\* ResolveConfig, StageSource, StageAccelerators, WriteMetadata,
\* CreateBuildEnvironment, RunAgent, CollectArtifact, Cleanup: no stage
\* starts before the previous one has completed, and the agent container is
\* started only after the source copy, the accelerator staging, the metadata
\* file (for wheels) and the builder image all exist.
C22_BuildStagesInOrder ==
    pipeline = "build_linux" =>
        LET s == StagesRun
            n == Len(s)
        IN  /\ n <= Len(BuildOrder)
            /\ \/ \A k \in 1..n : s[k] = BuildOrder[k]
               \/ /\ n >= 3
                  /\ s[n] = "Cleanup"
                  /\ \A k \in 1..(n - 1) : s[k] = BuildOrder[k]
            /\ Len(stages) >= 2 => stages[2] = "CreateWorkdir"
            /\ "RunAgent" \in Range(stages) =>
                  /\ {"cupy", "builder", "builder/nccl", "builder/cudnn"}
                         \subseteq staged
                  /\ cfg.nccl_config # "None" => "builder/nccl/lib" \in staged
                  /\ cfg.cudnn_version # "None" => "builder/cudnn/cuda" \in staged
                  /\ target = "wheel-linux" => "_wheel.json" \in staged
                  /\ "cupy-builder" \in images
            /\ Range(cmds) \cap {"nvidia-docker run", "docker run"} # {} =>
                  "RunAgent" \in Range(stages)

(* A CUDA wheel build that ran every stage and returned. *)
C22_Witness ==
    /\ pipeline = "build_linux" /\ target = "wheel-linux"
    /\ StagesRun = BuildOrder
    /\ outcome = "returned"
    /\ cmds[Len(cmds)] = "nvidia-docker run"
    /\ "builder/cudnn/cuda" \in staged

----------------------------------------------------------------------------
(* dist.py: get_cudnn_record, on the record list the installer dumped.     *)

MaxRecords == 2

RecordCudas == {"11.0", "11.1"}
RecordCudnns == {"8.0", "8.1"}
RecordPlatforms == {"Linux", "Windows"}
RecordAssets == {"asset1", "asset2"}

(* One record of the dump: {'cuda', 'cudnn', 'assets': {platform: asset}}. *)
Records ==
    [cuda : RecordCudas, cudnn : RecordCudnns,
     assets : UNION {[P -> RecordAssets] : P \in SUBSET RecordPlatforms}]

RecordLists == UNION {[1..n -> Records] : n \in 0..MaxRecords}

Returned(version, asset) == [status |-> "ok", cudnn |-> version, asset |-> asset]
Raised(err) == [status |-> err, cudnn |-> "none", asset |-> "none"]

(* A lookup that passes over a record without the platform. *)
RECURSIVE cudnn_record_with_platform(_, _, _, _)
cudnn_record_with_platform(records, k, cuda, platform) ==
    IF k > Len(records) THEN Raised("RuntimeError")
    ELSE IF records[k].cuda = cuda /\ platform \in DOMAIN records[k].assets
    THEN Returned(records[k].cudnn, records[k].assets[platform])
    ELSE cudnn_record_with_platform(records, k + 1, cuda, platform)

(* Lines 95-100: the loop over the records from the k-th on; the first     *)
(* record of the CUDA version is returned, record['assets'][platform]      *)
(* raising KeyError when it has no such key.                               *)
RECURSIVE cudnn_record(_, _, _, _)
cudnn_record(records, k, cuda, platform) ==
    IF k > Len(records) THEN Raised("RuntimeError")
    ELSE IF records[k].cuda = cuda
    THEN IF platform \in DOMAIN records[k].assets
         THEN Returned(records[k].cudnn, records[k].assets[platform])
         ELSE Raised("KeyError")
    ELSE cudnn_record(records, k + 1, cuda, platform)

InitRecord ==
    /\ IdlePipeline
    /\ IdleInstaller
    /\ script = "get_cudnn_record"
    /\ input \in [records : RecordLists, cuda : RecordCudas,
                  platform : RecordPlatforms]
    /\ result = <<>>

get_cudnn_record_Call ==
    /\ script = "get_cudnn_record"
    /\ result = <<>>
    /\ result' = cudnn_record(input.records, 1, input.cuda, input.platform)
    /\ UNCHANGED <<script, input>>
    /\ UNCHANGED <<fsvars, plvars>>

NextRecord == get_cudnn_record_Call

SpecRecord == InitRecord /\ [][NextRecord]_vars

(* The records of the requested CUDA version, by index. *)
CudaMatches == {i \in DOMAIN input.records : input.records[i].cuda = input.cuda}

FirstCudaMatch == CHOOSE i \in CudaMatches : \A j \in CudaMatches : i <= j

----------------------------------------------------------------------------
(* verifier/setup_cuda_runtime_headers.py                                  *)

MaxMajor == 14
MaxMinor == 5

NvrtcMajors == 10..MaxMajor
NvrtcMinors == 0..MaxMinor

(* pip install --user nvidia-cuda-runtime-cu{a}=={b}.{c}.* *)
PipInstall(a, b, c) ==
    [cmd |-> "pip install --user", package |-> <<"nvidia-cuda-runtime-cu", a>>,
     version |-> <<b, c, "*">>]

Done(status, commands) == [status |-> status, cmds |-> commands]

(* The setup with every version from 12.2 on taken as supported. *)
setup_cuda_runtime_headers_from_12(i) ==
    IF i.is_hip THEN {Done("returned", <<>>)}
    ELSE IF i.major = 11 THEN {Done("returned", <<>>)}
    ELSE IF i.major < 12 THEN {Done("AssertionError", <<>>)}
    ELSE IF i.major = 12 /\ i.minor < 2 THEN {Done("returned", <<>>)}
    ELSE {Done("returned", <<PipInstall(i.major, i.major, i.minor)>>),
          Done("CalledProcessError", <<PipInstall(i.major, i.major, i.minor)>>)}

(* main(): the outcomes of one run; subprocess.run(check=True) raises      *)
(* CalledProcessError when pip exits with a non-zero status.               *)
setup_cuda_runtime_headers(i) ==
    IF i.is_hip THEN {Done("returned", <<>>)}
    ELSE IF i.major = 11 THEN {Done("returned", <<>>)}
    ELSE IF i.major = 12
    THEN IF i.minor < 2 THEN {Done("returned", <<>>)}
         ELSE {Done("returned", <<PipInstall(i.major, i.major, i.minor)>>),
               Done("CalledProcessError", <<PipInstall(i.major, i.major, i.minor)>>)}
    ELSE {Done("AssertionError", <<>>)}

InitHeaders ==
    /\ IdlePipeline
    /\ IdleInstaller
    /\ script = "setup_cuda_runtime_headers"
    /\ input \in [is_hip : BOOLEAN, major : NvrtcMajors, minor : NvrtcMinors]
    /\ result = <<>>

setup_cuda_runtime_headers_main ==
    /\ script = "setup_cuda_runtime_headers"
    /\ result = <<>>
    /\ result' \in setup_cuda_runtime_headers(input)
    /\ UNCHANGED <<script, input>>
    /\ UNCHANGED <<fsvars, plvars>>

NextHeaders == setup_cuda_runtime_headers_main

SpecHeaders == InitHeaders /\ [][NextHeaders]_vars

HeadersNeeded == ~input.is_hip /\ input.major = 12 /\ input.minor >= 2

\* C27: the header setup runs `pip install
\* nvidia-cuda-runtime-cu<major>==<major>.<minor>.*` if and only if the
\* runtime is not HIP and the NVRTC version has major 12 and minor at least
\* 2; for HIP, for major 11 and for 12.0 and 12.1 it returns without running
\* any command; for any other major version (versions above 12 included) it
\* fails an assertion without running any command.
C27_HeadersFrom12_2 ==
    (script = "setup_cuda_runtime_headers" /\ result # <<>>) =>
        /\ result.cmds # <<>> <=> HeadersNeeded
        /\ HeadersNeeded =>
              result.cmds =
                  <<[cmd |-> "pip install --user",
                     package |-> <<"nvidia-cuda-runtime-cu", input.major>>,
                     version |-> <<input.major, input.minor, "*">>]>>
        /\ (input.is_hip \/ input.major = 11
              \/ (input.major = 12 /\ input.minor < 2)) =>
              result = Done("returned", <<>>)
        /\ (~input.is_hip /\ input.major \notin {11, 12}) =>
              result = Done("AssertionError", <<>>)

(* CUDA 12.4: the command was run and the script returned. *)
C27_Witness ==
    /\ script = "setup_cuda_runtime_headers"
    /\ input = [is_hip |-> FALSE, major |-> 12, minor |-> 4]
    /\ result # <<>>
    /\ result.status = "returned"
    /\ Len(result.cmds) = 1

(* CUDA 13.0: the assertion failed and no command was run. *)
UnsupportedMajorAsserts ==
    /\ script = "setup_cuda_runtime_headers"
    /\ input = [is_hip |-> FALSE, major |-> 13, minor |-> 0]
    /\ result = Done("AssertionError", <<>>)

----------------------------------------------------------------------------
(* setup_cuda_opt_lib.py: main(), the libraries installed one after the    *)
(* other from one vendor tree.                                             *)

Libraries == {"cutensor", "nccl", "cudnn"}
Platforms == {"linux", "win32", "darwin"}

(* What a library version directory holds: directories (each with one file *)
(* named after the library) and, in one shape, a regular file.             *)
PayloadShapes ==
    {{"lib"}, {"lib", "include"}, {"lib64", "include"}, {"bin", "lib"},
     {"lib", "LICENSE"}}

(* Per library: the number of its version directories (0: the library is   *)
(* not in the tree) and what each of them holds.                           *)
Layouts == [Libraries -> [vers : 0..MaxCandidates, payload : PayloadShapes]]

(* $src_dir/$CUDA_VERSION/$name/$LIB_VERSION/<payload> *)
MainTree(tops, layout) ==
    LET libdirs == {<<t, l>> : t \in tops, l \in {m \in Libraries : layout[m].vers > 0}}
        stems == UNION {{ld \o <<v>> : v \in Candidates(layout[ld[2]].vers)} : ld \in libdirs}
        entries == UNION {{s \o <<d>> : d \in layout[s[2]].payload} : s \in stems}
        inner == {e \o <<e[2]>> : e \in {x \in entries : x[4] # "LICENSE"}}
        dirs == {<<t>> : t \in tops} \cup libdirs \cup stems
                    \cup {x \in entries : x[4] # "LICENSE"}
        files == {x \in entries : x[4] = "LICENSE"} \cup inner
    IN  [q \in dirs \cup files |-> IF q \in dirs THEN DirEntry ELSE 1]

(* The destinations: empty, or with a lib64 directory that holds a file. *)
MainDestinations ==
    {<<>>, [q \in {<<"lib64">>, <<"lib64", "old">>} |->
                IF q = <<"lib64">> THEN DirEntry ELSE 2]}

WindowsCutensorMap == [n \in {"lib", "include"} |-> IF n = "lib" THEN "bin" ELSE "include"]
WindowsCudnnMap == [n \in {"bin", "lib", "include"} |-> n]

(* The calls of main() on a platform, in order: <<name, install_map>>. *)
LibrariesOf(platform) ==
    IF platform = "linux"
    THEN <<<<"cutensor", LinuxNcclMap>>, <<"nccl", LinuxNcclMap>>,
           <<"cudnn", LinuxCudnnMap>>>>
    ELSE IF platform = "win32"
    THEN <<<<"cutensor", WindowsCutensorMap>>, <<"cudnn", WindowsCudnnMap>>>>
    ELSE <<>>

(* The calls in sequence; an exception of one call ends the run. *)
RECURSIVE InstallAll(_, _, _)
InstallAll(calls, T, sts) ==
    IF calls = <<>> THEN sts
    ELSE InstallAll(Tail(calls), T,
            UNION {IF st.status # "ok" THEN {st}
                   ELSE {[fs |-> out.fs, status |-> out.status,
                          calls |-> Append(st.calls, Head(calls)[1])] :
                            out \in _install_library(Head(calls)[1], T, st.fs,
                                                     Head(calls)[2])} : st \in sts})

(* A main() that makes the Linux calls on every platform it knows. *)
setup_cuda_opt_lib_as_linux(platform, T, D) ==
    IF platform \in {"linux", "win32"}
    THEN InstallAll(LibrariesOf("linux"), T, {[fs |-> D, status |-> "ok", calls |-> <<>>]})
    ELSE {[fs |-> D, status |-> "AssertionError", calls |-> <<>>]}

(* main(): the set of outcomes [fs, status, calls]. *)
setup_cuda_opt_lib(platform, T, D) ==
    IF platform \in {"linux", "win32"}
    THEN InstallAll(LibrariesOf(platform), T, {[fs |-> D, status |-> "ok", calls |-> <<>>]})
    ELSE {[fs |-> D, status |-> "AssertionError", calls |-> <<>>]}

InitMain ==
    /\ IdlePipeline
    /\ script = "setup_cuda_opt_lib"
    /\ \E platform \in Platforms, layout \in Layouts :
          input = [platform |-> platform, layout |-> layout]
    /\ \E ntops \in 1..MaxCandidates : src = MainTree(Candidates(ntops), input.layout)
    /\ dst \in MainDestinations
    /\ libname = "none" /\ install_map = <<>>
    /\ log = <<>>
    /\ result = <<>>

setup_cuda_opt_lib_main ==
    /\ script = "setup_cuda_opt_lib"
    /\ log = <<>>
    /\ \E out \in setup_cuda_opt_lib(input.platform, src, dst) :
          /\ dst' = out.fs
          /\ log' = Append(log, [pre |-> dst, post |-> out.fs, status |-> out.status])
          /\ result' = out.calls
    /\ UNCHANGED <<src, libname, install_map, script, input>>
    /\ UNCHANGED plvars

NextMain == setup_cuda_opt_lib_main

SpecMain == InitMain /\ [][NextMain]_vars

MainRan == script = "setup_cuda_opt_lib" /\ log # <<>>

(* The policy as the claim has it: the libraries of a platform, and the    *)
(* name a payload entry of a library takes in the destination.             *)
ClaimedLibraries(platform) ==
    IF platform = "linux" THEN <<"cutensor", "nccl", "cudnn">>
    ELSE IF platform = "win32" THEN <<"cutensor", "cudnn">>
    ELSE <<>>

ClaimedName(platform, lib, d) ==
    IF platform = "linux" /\ lib \in {"cutensor", "nccl"} /\ d = "lib" THEN "lib64"
    ELSE IF platform = "win32" /\ lib = "cutensor" /\ d = "lib" THEN "bin"
    ELSE d

(* What the claimed policy puts into the destination from the vendor tree. *)
ClaimedFiles ==
    UNION {{<<ClaimedName(input.platform, l, d), l>> : d \in input.layout[l].payload} :
              l \in {m \in Range(ClaimedLibraries(input.platform)) :
                        input.layout[m].vers > 0}}

IsPrefix(s, t) == Len(s) <= Len(t) /\ \A k \in 1..Len(s) : s[k] = t[k]

\* C24: the installer entry point applies the platform policy exactly: on
\* Linux it installs cutensor and nccl with lib mapped to lib64 and cudnn
\* with lib64 to lib64 and include to include; on Windows it installs
\* cutensor with lib mapped to bin and cudnn with bin, lib and include under
\* their own names, and does not install nccl; on any other platform it
\* fails with an error without touching the destination.
C24_PlatformPolicy ==
    MainRan =>
        LET pre == log[1].pre
            post == log[1].post
        IN  /\ IsPrefix(result, ClaimedLibraries(input.platform))
            /\ input.platform \notin {"linux", "win32"} =>
                  log[1].status = "AssertionError" /\ post = pre /\ result = <<>>
            /\ log[1].status = "ok" =>
                  /\ result = ClaimedLibraries(input.platform)
                  /\ DOMAIN post = DOMAIN pre \cup ClaimedFiles
                                       \cup {Parent(f) : f \in ClaimedFiles}
                  /\ \A f \in ClaimedFiles : post[f] = 1
                  /\ \A p \in DOMAIN pre : post[p] = pre[p]

(* Windows, all three libraries in the tree, nccl with two versions: the   *)
(* run returned with cutensor's lib under bin and nothing of nccl.         *)
C24_Witness ==
    /\ MainRan
    /\ input.platform = "win32"
    /\ log[1].status = "ok"
    /\ input.layout["cutensor"] = [vers |-> 1, payload |-> {"lib", "include"}]
    /\ input.layout["nccl"] = [vers |-> 2, payload |-> {"lib"}]
    /\ input.layout["cudnn"] = [vers |-> 1, payload |-> {"bin", "lib"}]
    /\ log[1].pre = <<>>
    /\ DOMAIN log[1].post =
          {<<"bin">>, <<"bin", "cutensor">>, <<"include">>, <<"include", "cutensor">>,
           <<"bin", "cudnn">>, <<"lib">>, <<"lib", "cudnn">>}

(* Linux: cutensor and nccl under lib64 next to cudnn's lib64. *)
LinuxPolicyApplied ==
    /\ MainRan
    /\ input.platform = "linux"
    /\ log[1].status = "ok"
    /\ \A l \in Libraries : input.layout[l].vers = 1
    /\ {<<"lib64", "cutensor">>, <<"lib64", "nccl">>, <<"lib64", "cudnn">>,
        <<"lib64", "old">>} \subseteq DOMAIN log[1].post

(* A library of the platform whose vendor tree is ambiguous. *)
AmbiguousVendorTree ==
    \/ Cardinality(Children(src, <<>>)) >= 2
    \/ \E l \in Range(ClaimedLibraries(input.platform)) : input.layout[l].vers >= 2

\* C25: when the installer entry point installs several libraries in
\* sequence and the vendor tree of any one of them is ambiguous, the run
\* fails with the destination tree unchanged: no files of an earlier library
\* have been merged into the destination.
C25_AmbiguousTreeLeavesDestination ==
    (MainRan /\ AmbiguousVendorTree) =>
        /\ log[1].status # "ok"
        /\ log[1].post = log[1].pre

(* What holds of the code: the run fails, and the destination is unchanged *)
(* when the library that fails is the first one in the tree.               *)
AmbiguousTreeFailsRun ==
    (MainRan /\ AmbiguousVendorTree) =>
        /\ log[1].status # "ok"
        /\ Cardinality(Children(src, <<>>)) >= 2 => log[1].post = log[1].pre

----------------------------------------------------------------------------
(* Properties of the working directories of a Linux verify run, under Spec. *)

LiveWorkdirs == {w \in DOMAIN workdirs : workdirs[w].state = "live"}

\* C26: during a Linux verify run over several systems at most one working
\* directory of the run exists at any time: the working directory of system
\* i is created after the one of system i-1 has been removed, and after the
\* run ends (normally or by failure) none of its working directories
\* remains.
C26_NoWorkdirRemains ==
    pipeline = "verify_linux" =>
        /\ Cardinality(LiveWorkdirs) <= 1
        /\ \A w \in DOMAIN workdirs : w < Len(workdirs) => workdirs[w].state = "removed"
        /\ Ended => LiveWorkdirs = {}

\* C26, as the code has it: at most one working directory of the run exists
\* at any time, the one of system i being created after the one of system
\* i-1 has been removed; after the run ends none remains, except the last
\* one created when its removal failed.
C26_OneWorkdirAtATime ==
    pipeline = "verify_linux" =>
        /\ Cardinality(LiveWorkdirs) <= 1
        /\ \A w \in DOMAIN workdirs : w < Len(workdirs) => workdirs[w].state = "removed"
        /\ Ended =>
              \/ LiveWorkdirs = {}
              \/ /\ LiveWorkdirs = {Len(workdirs)}
                 /\ workdirs[Len(workdirs)].rmtree = "failed"

(* Two systems verified, each in a working directory of its own, both      *)
(* removed.                                                                *)
C26_Witness ==
    /\ pipeline = "verify_linux"
    /\ Len(cfg.systems) = 2
    /\ outcome = "returned"
    /\ Len(workdirs) = 2
    /\ LiveWorkdirs = {}

(* The second system's working directory could not be removed. *)
WorkdirLeftBehind ==
    /\ pipeline = "verify_linux"
    /\ Ended
    /\ Len(workdirs) = 2
    /\ LiveWorkdirs = {2}

====
